---- MODULE Spec2Model ----
(***************************************************************************)
(* STRATIFY frontend: the client-side state machines of the React pages    *)
(* and zustand stores (auth / login, CFO chat and executive report,        *)
(* investor directory, dashboard reports and data query).                  *)
(*                                                                         *)
(* Every asynchronous handler is split where the code awaits: the part up  *)
(* to the await is one action (it issues the request), the continuation    *)
(* (try-rest / catch / finally) is one action per outcome.  Requests in    *)
(* flight are kept in sequences; a response may arrive for any of them.    *)
(*                                                                         *)
(* Texts are sequences of string tokens: a typed text is the sequence of   *)
(* its characters, a fixed message of the code is a one-token sequence.    *)
(***************************************************************************)
EXTENDS Integers, Sequences, FiniteSets, TLC

VARIABLES
    \* ---- cfo.store.ts (zustand store) and CfoChatWidget.tsx
    chatHistory,        \* ChatMessage[]
    monthlyReport,      \* string | null
    isProcessingChat,   \* boolean
    isGeneratingReport, \* boolean
    chatReqs,           \* POST /api/v1/ai/chat requests in flight (their message)
    reportReqs,         \* number of POST /api/v1/ai/report requests in flight
    isWidgetOpen,       \* CfoChatWidget useState
    currentInput,       \* CfoChatWidget useState
    reportMounted,      \* an ExecutiveReport component is mounted
    \* ---- InvestorDirectoryPage.tsx (useState)
    investors,          \* InvestorMatch[] (the investor_id of each record)
    loading,            \* boolean
    loadingMore,        \* boolean
    filterOptions,      \* FilterOptions
    totalCount,         \* number
    stageFilter,        \* string
    hqFilter,           \* string
    sortBy,             \* string
    skip,               \* number
    dirReqs,            \* GET /api/v1/ai/match/all requests in flight
    optionsReq,         \* the GET /api/v1/ai/match/filter-options request is in flight
    dirActions,         \* user actions taken on the directory page so far
    listSources,        \* the selections whose responses put records into investors
    \* ---- DashboardPage.tsx: report generation (useState) and its timeouts
    generatingReport,   \* ReportType | null
    reportSuccess,      \* string | null
    reportError,        \* string | null
    genReqs,            \* generateReport requests in flight: [type, gen]
    timers,             \* pending setTimeout callbacks: [clears, left, gen]
    genSeq,             \* number of report generations started so far
    bannerBy,           \* the generation that set the banner now shown (0: none)
    \* ---- useDashboard (useQuery) and InvestorMatchList
    queryStatus,        \* "loading" | "success" | "error"
    queryFetching,      \* a getDashboardData request is in flight
    cashFlow,           \* data?.cashFlow of the query: [balance, income, expenses]
    runwayChange,       \* change text of the 'runway' metric of data, <<>> without one
    activeTab,          \* ui store: "Overview" | "Analytics" | "Reports"
    scenarioImpact,     \* <<>> or <<the impact computed for the scenario last saved>>
    analytics,          \* <<>> or <<what the Analytics tab computed at its render>>
    matchInvestors,     \* InvestorMatchList useState
    matchLoading,       \* InvestorMatchList useState
    matchReqs,          \* fetchMatchedInvestors requests in flight
    \* ---- auth.store (zustand), the router, LoginPage and GoogleSignInButton
    user,               \* <<>> (null) or <<the user record>>
    token,              \* string | null
    isAuthenticated,    \* boolean
    path,               \* the current location
    guardModule,        \* which ProtectedRoute module the router mounts
    loginSubmitting,    \* LoginPage isSubmitting
    loginError,         \* LoginPage errorMessage
    loginReqs,          \* login requests in flight (the account asked for)
    googleReqs,         \* POST /auth/google requests in flight (the credential)
    googleButton,       \* "loading" | "ready" | "hidden"
    registerSubmitting, \* RegisterPage isSubmitting
    registerError,      \* RegisterPage errorMessage
    registerReqs,       \* register requests in flight: [account, data]
    registerErrors,     \* RegisterPage formState.errors: the messages shown
    authFx,             \* the store and router calls of the last step, in order
    thrown,             \* what the request rejected last threw (<<>>: nothing yet)
    \* ---- the part of the application a run exercises, and the step taken last
    focus,
    last

cfoVars == <<chatHistory, monthlyReport, isProcessingChat, isGeneratingReport,
             chatReqs, reportReqs, isWidgetOpen, currentInput, reportMounted>>

dirVars == <<investors, loading, loadingMore, filterOptions, totalCount,
             stageFilter, hqFilter, sortBy, skip, dirReqs, optionsReq, dirActions,
             listSources>>

genVars == <<generatingReport, reportSuccess, reportError, genReqs, timers, genSeq,
             bannerBy>>

finVars == <<cashFlow, runwayChange, activeTab, analytics, scenarioImpact>>

dashVars == <<queryStatus, queryFetching, matchInvestors,
              matchLoading, matchReqs, finVars>>

authVars == <<user, token, isAuthenticated, path, guardModule, loginSubmitting,
              loginError, loginReqs, googleReqs, googleButton, registerSubmitting,
              registerError, registerReqs, registerErrors, authFx, thrown>>

vars == <<cfoVars, dirVars, genVars, dashVars, authVars, focus, last>>

\* the bookkeeping every step does: it leaves its name
Step(name) == last' = name /\ UNCHANGED focus

Null == <<"null">>

\* ------------------------------------------------------------------ bounds
MaxPending == 2      \* requests of one kind in flight at once
MaxHistory == 5      \* chat messages kept before the model stops sending
MaxInput == 2        \* characters typed into the chat input
CatalogSize == 110   \* investors in the static catalog
MaxDirActions == 4   \* selection changes and Load More presses in one run
MaxGenerations == 3  \* report generations started in one run
MaxPages == 3        \* Load More is pressed while skip stays below MaxPages * LIMIT
MaxMonths == 2       \* entries of the cash-flow series
MaxName == 2         \* characters typed into the full name field

\* ------------------------------------------------------------------ helpers
RemoveAt(s, i) == [j \in 1..(Len(s) - 1) |-> IF j < i THEN s[j] ELSE s[j + 1]]

Min(a, b) == IF a <= b THEN a ELSE b

\* ================================================================ CFO store
GreetingText == <<"Hello. I have loaded your financial ledgers. What metrics would you like to review?">>
ChatErrorText == <<"Error connecting to the financial engine. Please try again.">>
ChatResetText == <<"Chat reset. How else can I assist?">>
ReportErrorText == <<"Failed to compile the executive summary. Ensure you have financial data imported.">>

\* what the server may answer (res.data.response, res.data.report)
ChatResponses == {<<"Your runway is 5.1 months.">>, <<"Burn is 28000.">>}
ServerReports == {<<"Board update A">>, <<"Board update B">>}

Chars == {" ", "a"}
InputTexts == UNION {[1..n -> Chars] : n \in 0..MaxInput}

UserMsg(text) == [role |-> "user", text |-> text]
AiMsg(text) == [role |-> "ai", text |-> text]

CfoInit ==
    /\ chatHistory = <<AiMsg(GreetingText)>>
    /\ monthlyReport = Null
    /\ isProcessingChat = FALSE
    /\ isGeneratingReport = FALSE
    /\ chatReqs = <<>>
    /\ reportReqs = 0
    /\ isWidgetOpen = FALSE
    /\ currentInput = <<>>
    /\ reportMounted = FALSE

\* sendUserMessage up to the await: append the user message, show the typing
\* indicator, issue the one axios.post
sendUserMessage(text) ==
    /\ Len(chatReqs) < MaxPending
    /\ Len(chatHistory) + Len(chatReqs) + 2 <= MaxHistory
    /\ chatHistory' = Append(chatHistory, UserMsg(text))
    /\ isProcessingChat' = TRUE
    /\ chatReqs' = Append(chatReqs, text)

\* (mutant) the catch block appends nothing
ChatCatchSilent(history) == history

\* the catch block of sendUserMessage
ChatCatch(history) == Append(history, AiMsg(ChatErrorText))

\* the request resolved: rest of the try block, then finally
chatResolved(i, response) ==
    /\ i \in 1..Len(chatReqs)
    /\ chatHistory' = Append(chatHistory, AiMsg(response))
    /\ isProcessingChat' = FALSE
    /\ chatReqs' = RemoveAt(chatReqs, i)

\* (mutant) a failed chat request is issued again
chatRejectedRetry(i) ==
    /\ i \in 1..Len(chatReqs)
    /\ chatHistory' = ChatCatch(chatHistory)
    /\ isProcessingChat' = FALSE
    /\ chatReqs' = Append(RemoveAt(chatReqs, i), chatReqs[i])

\* the request rejected: catch, then finally
chatRejected(i) ==
    /\ i \in 1..Len(chatReqs)
    /\ chatHistory' = ChatCatch(chatHistory)
    /\ isProcessingChat' = FALSE
    /\ chatReqs' = RemoveAt(chatReqs, i)

resetChatSession ==
    chatHistory' = <<AiMsg(ChatResetText)>>

\* fetchExecutiveReport up to the await
fetchExecutiveReport ==
    /\ reportReqs < MaxPending
    /\ isGeneratingReport' = TRUE
    /\ reportReqs' = reportReqs + 1

\* (mutant) no finally block: the flag stays as it is
ReportFinallySkipped == isGeneratingReport

\* the finally block of fetchExecutiveReport
ReportFinally == FALSE

reportResolved(report) ==
    /\ reportReqs > 0
    /\ monthlyReport' = report
    /\ isGeneratingReport' = ReportFinally
    /\ reportReqs' = reportReqs - 1

reportRejected ==
    /\ reportReqs > 0
    /\ monthlyReport' = ReportErrorText
    /\ isGeneratingReport' = ReportFinally
    /\ reportReqs' = reportReqs - 1

\* ------------------------------------------------------- CfoChatWidget.tsx
IsSpace(c) == c = " "

\* String.prototype.trim on a sequence of characters
RECURSIVE TrimLeft(_)
TrimLeft(s) == IF s # <<>> /\ IsSpace(Head(s)) THEN TrimLeft(Tail(s)) ELSE s

RECURSIVE TrimRight(_)
TrimRight(s) ==
    IF s # <<>> /\ IsSpace(s[Len(s)]) THEN TrimRight(SubSeq(s, 1, Len(s) - 1)) ELSE s

Trim(s) == TrimRight(TrimLeft(s))

\* JavaScript falsiness of a string | null
Falsy(x) == x = Null \/ x = <<>>

\* (mutant) the guard without trim(): whitespace-only input is submitted
SubmitAllowedUntrimmed == ~Falsy(currentInput) /\ ~isProcessingChat

\* the guard of handleFormSubmit: it returns early when this is false
SubmitAllowed == ~Falsy(Trim(currentInput)) /\ ~isProcessingChat

OpenWidget ==
    /\ ~isWidgetOpen
    /\ isWidgetOpen' = TRUE
    /\ Step("OpenWidget")
    /\ UNCHANGED <<dirVars, genVars, dashVars, authVars>>
    /\ UNCHANGED <<chatHistory, monthlyReport, isProcessingChat, isGeneratingReport,
                   chatReqs, reportReqs, currentInput, reportMounted>>

CloseWidget ==
    /\ isWidgetOpen
    /\ isWidgetOpen' = FALSE
    /\ Step("CloseWidget")
    /\ UNCHANGED <<dirVars, genVars, dashVars, authVars>>
    /\ UNCHANGED <<chatHistory, monthlyReport, isProcessingChat, isGeneratingReport,
                   chatReqs, reportReqs, currentInput, reportMounted>>

\* onChange of the text input (the input is disabled while isProcessingChat)
TypeInput ==
    /\ isWidgetOpen
    /\ ~isProcessingChat
    /\ \E t \in InputTexts : t # currentInput /\ currentInput' = t
    /\ Step("TypeInput")
    /\ UNCHANGED <<dirVars, genVars, dashVars, authVars>>
    /\ UNCHANGED <<chatHistory, monthlyReport, isProcessingChat, isGeneratingReport,
                   chatReqs, reportReqs, isWidgetOpen, reportMounted>>

\* handleFormSubmit with the guard true: clear the input, call sendUserMessage
handleFormSubmit ==
    /\ isWidgetOpen
    /\ SubmitAllowed
    /\ currentInput' = <<>>
    /\ sendUserMessage(currentInput)
    /\ Step("handleFormSubmit")
    /\ UNCHANGED <<dirVars, genVars, dashVars, authVars>>
    /\ UNCHANGED <<monthlyReport, isGeneratingReport, reportReqs, isWidgetOpen,
                   reportMounted>>

\* handleFormSubmit with the guard false: the early return
handleFormSubmitIgnored ==
    /\ isWidgetOpen
    /\ ~SubmitAllowed
    /\ Step("handleFormSubmitIgnored")
    /\ UNCHANGED <<cfoVars, dirVars, genVars, dashVars, authVars>>

\* a caller of the store other than the widget: any text, any time
SendUserMessage ==
    /\ \E t \in InputTexts : sendUserMessage(t)
    /\ Step("sendUserMessage")
    /\ UNCHANGED <<dirVars, genVars, dashVars, authVars>>
    /\ UNCHANGED <<monthlyReport, isGeneratingReport, reportReqs, isWidgetOpen,
                   currentInput, reportMounted>>

ChatResolved ==
    /\ \E i \in 1..Len(chatReqs) : \E r \in ChatResponses : chatResolved(i, r)
    /\ Step("chatResolved")
    /\ UNCHANGED <<dirVars, genVars, dashVars, authVars>>
    /\ UNCHANGED <<monthlyReport, isGeneratingReport, reportReqs, isWidgetOpen,
                   currentInput, reportMounted>>

ChatRejected ==
    /\ \E i \in 1..Len(chatReqs) : chatRejected(i)
    /\ Step("chatRejected")
    /\ UNCHANGED <<dirVars, genVars, dashVars, authVars>>
    /\ UNCHANGED <<monthlyReport, isGeneratingReport, reportReqs, isWidgetOpen,
                   currentInput, reportMounted>>

ResetChatSession ==
    /\ resetChatSession
    /\ Step("resetChatSession")
    /\ UNCHANGED <<dirVars, genVars, dashVars, authVars>>
    /\ UNCHANGED <<monthlyReport, isProcessingChat, isGeneratingReport, chatReqs,
                   reportReqs, isWidgetOpen, currentInput, reportMounted>>

\* ------------------------------------------------ ExecutiveReport component
\* mount effect: compile the report if there is none and none is being compiled
MountExecutiveReport ==
    /\ ~reportMounted
    /\ reportMounted' = TRUE
    /\ IF Falsy(monthlyReport) /\ ~isGeneratingReport
          THEN fetchExecutiveReport
          ELSE UNCHANGED <<isGeneratingReport, reportReqs>>
    /\ Step("MountExecutiveReport")
    /\ UNCHANGED <<dirVars, genVars, dashVars, authVars>>
    /\ UNCHANGED <<chatHistory, monthlyReport, isProcessingChat, chatReqs,
                   isWidgetOpen, currentInput>>

UnmountExecutiveReport ==
    /\ reportMounted
    /\ reportMounted' = FALSE
    /\ Step("UnmountExecutiveReport")
    /\ UNCHANGED <<dirVars, genVars, dashVars, authVars>>
    /\ UNCHANGED <<chatHistory, monthlyReport, isProcessingChat, isGeneratingReport,
                   chatReqs, reportReqs, isWidgetOpen, currentInput>>

\* the Refresh Report button (disabled while isGeneratingReport)
RefreshReport ==
    /\ reportMounted
    /\ ~isGeneratingReport
    /\ fetchExecutiveReport
    /\ Step("RefreshReport")
    /\ UNCHANGED <<dirVars, genVars, dashVars, authVars>>
    /\ UNCHANGED <<chatHistory, monthlyReport, isProcessingChat, chatReqs,
                   isWidgetOpen, currentInput, reportMounted>>

ReportResolved ==
    /\ \E r \in ServerReports : reportResolved(r)
    /\ Step("reportResolved")
    /\ UNCHANGED <<dirVars, genVars, dashVars, authVars>>
    /\ UNCHANGED <<chatHistory, isProcessingChat, chatReqs, isWidgetOpen,
                   currentInput, reportMounted>>

ReportRejected ==
    /\ reportRejected
    /\ Step("reportRejected")
    /\ UNCHANGED <<dirVars, genVars, dashVars, authVars>>
    /\ UNCHANGED <<chatHistory, isProcessingChat, chatReqs, isWidgetOpen,
                   currentInput, reportMounted>>

\* ======================================================= investor directory
LIMIT == 50

\* ---- the list endpoint: a static catalog, filtered, sorted, paged by
\* ---- skip/limit (the backend is not part of the sources)
Catalog == 1..CatalogSize
StageOf(id) == IF id % 2 = 0 THEN "Seed" ELSE "Series A"
HqOf(id) == IF id % 3 = 0 THEN "London" ELSE "Berlin"

ServerOptions == [hqs |-> {"London"}, stages |-> {"Seed"}]
NoOptions == [hqs |-> {}, stages |-> {}]

\* every Stride-th record of the catalog matches the selection
Stride(stage, hq) ==
    (IF stage = "All" THEN 1 ELSE 2) * (IF hq = "All" THEN 1 ELSE 3)

MatchCount(stage, hq) == CatalogSize \div Stride(stage, hq)

\* name_asc lists the matching records by name (here: by id), name_desc is
\* the reverse order
ServerResult(stage, hq, sort) ==
    LET n == MatchCount(stage, hq)
        d == Stride(stage, hq)
    IN [k \in 1..n |-> IF sort = "name_desc" THEN (n + 1 - k) * d ELSE k * d]

ServerPage(req) ==
    LET all == ServerResult(req.stage, req.hq, req.sortBy)
    IN [investors |-> SubSeq(all, req.skip + 1, Min(req.skip + LIMIT, Len(all))),
        total |-> Len(all)]

\* ---- InvestorDirectoryPage
Request(stage, hq, sort, sk) == [stage |-> stage, hq |-> hq, sortBy |-> sort, skip |-> sk]

SortOptions == {"name_asc", "name_desc"}

\* the state once the page has mounted: the three mount effects have run, the
\* options request and the first list request are in flight
DirInit ==
    /\ investors = <<>>
    /\ loading = TRUE
    /\ loadingMore = FALSE
    /\ filterOptions = NoOptions
    /\ totalCount = 0
    /\ stageFilter = "All"
    /\ hqFilter = "All"
    /\ sortBy = "name_asc"
    /\ skip = 0
    /\ dirReqs = <<Request("All", "All", "name_asc", 0)>>
    /\ optionsReq = TRUE
    /\ dirActions = 0
    /\ listSources = {}

\* effect 3 run after a render with selection (stage, hq, sort) and offset sk:
\* the requests it issues.  After a selection change effect 2 calls setSkip(0)
\* and effect 3 runs in the same commit with the offset of that render; when
\* that offset was not 0 the re-render with skip = 0 runs effect 3 again.
RequestsAfterSelection(stage, hq, sort, sk) ==
    IF sk = 0 THEN <<Request(stage, hq, sort, 0)>>
    ELSE <<Request(stage, hq, sort, sk), Request(stage, hq, sort, 0)>>

\* a selection change: setStageFilter / setHqFilter / setSortBy, then the effects
selectionChanged(stage, hq, sort) ==
    LET issued == RequestsAfterSelection(stage, hq, sort, skip)
    IN /\ Len(dirReqs) + Len(issued) <= MaxPending
       /\ dirActions < MaxDirActions
       /\ dirActions' = dirActions + 1
       /\ stageFilter' = stage
       /\ hqFilter' = hq
       /\ sortBy' = sort
       /\ skip' = 0
       /\ loading' = TRUE
       /\ loadingMore' = IF skip = 0 THEN loadingMore ELSE TRUE
       /\ dirReqs' = dirReqs \o issued
       /\ UNCHANGED <<investors, filterOptions, totalCount, optionsReq, listSources>>

\* what the page renders below the filters
LoaderShown == loading
GridShown == ~loading
\* (mutant) Load More is offered for the second page only
LoadMoreOfferedOnce == ~loading /\ Len(investors) < totalCount /\ skip = 0

\* the Load More button is rendered below the grid
LoadMoreOffered == ~loading /\ Len(investors) < totalCount
EmptyNoteShown == ~loading /\ Len(investors) = 0
DirectoryErrorShown == FALSE   \* the page renders no error element

setStageFilter ==
    /\ \E v \in {"All"} \cup filterOptions.stages :
          v # stageFilter /\ selectionChanged(v, hqFilter, sortBy)
    /\ Step("setStageFilter")
    /\ UNCHANGED <<cfoVars, genVars, dashVars, authVars>>

setHqFilter ==
    /\ \E v \in {"All"} \cup filterOptions.hqs :
          v # hqFilter /\ selectionChanged(stageFilter, v, sortBy)
    /\ Step("setHqFilter")
    /\ UNCHANGED <<cfoVars, genVars, dashVars, authVars>>

setSortBy ==
    /\ \E v \in SortOptions : v # sortBy /\ selectionChanged(stageFilter, hqFilter, v)
    /\ Step("setSortBy")
    /\ UNCHANGED <<cfoVars, genVars, dashVars, authVars>>

\* the Load More button: setSkip(prev => prev + LIMIT), then effect 3
LoadMore ==
    /\ LoadMoreOffered
    /\ ~loadingMore
    /\ skip + LIMIT < MaxPages * LIMIT
    /\ Len(dirReqs) < MaxPending
    /\ dirActions < MaxDirActions
    /\ dirActions' = dirActions + 1
    /\ skip' = skip + LIMIT
    /\ loadingMore' = TRUE
    /\ dirReqs' = Append(dirReqs, Request(stageFilter, hqFilter, sortBy, skip + LIMIT))
    /\ Step("LoadMore")
    /\ UNCHANGED <<investors, loading, filterOptions, totalCount, stageFilter,
                   hqFilter, sortBy, optionsReq, listSources>>
    /\ UNCHANGED <<cfoVars, genVars, dashVars, authVars>>

\* the selection a request was issued for
SelectionOf(req) == [stage |-> req.stage, hq |-> req.hq, sortBy |-> req.sortBy]

\* loadInvestors after the await resolved: try-rest, then finally
loadInvestorsResolved(i) ==
    LET req == dirReqs[i]
        data == ServerPage(req)
        source == IF data.investors = <<>> THEN {} ELSE {SelectionOf(req)}
    IN /\ investors' = IF req.skip = 0 THEN data.investors
                       ELSE investors \o data.investors
       /\ listSources' = IF req.skip = 0 THEN source ELSE listSources \cup source
       /\ totalCount' = data.total
       /\ loading' = FALSE
       /\ loadingMore' = FALSE
       /\ dirReqs' = RemoveAt(dirReqs, i)

\* loadInvestors after the await rejected: catch (console.error), then finally
loadInvestorsRejected(i) ==
    /\ loading' = FALSE
    /\ loadingMore' = FALSE
    /\ dirReqs' = RemoveAt(dirReqs, i)
    /\ UNCHANGED <<investors, totalCount, listSources>>

DirResolved ==
    /\ \E i \in 1..Len(dirReqs) : loadInvestorsResolved(i)
    /\ Step("dirResolved")
    /\ UNCHANGED <<filterOptions, stageFilter, hqFilter, sortBy, skip, optionsReq,
                   dirActions>>
    /\ UNCHANGED <<cfoVars, genVars, dashVars, authVars>>

DirRejected ==
    /\ \E i \in 1..Len(dirReqs) : loadInvestorsRejected(i)
    /\ Step("dirRejected")
    /\ UNCHANGED <<filterOptions, stageFilter, hqFilter, sortBy, skip, optionsReq,
                   dirActions>>
    /\ UNCHANGED <<cfoVars, genVars, dashVars, authVars>>

\* loadOptions: the filter options arrive, or the request fails (console.error)
OptionsResolved ==
    /\ optionsReq
    /\ optionsReq' = FALSE
    /\ filterOptions' = ServerOptions
    /\ Step("optionsResolved")
    /\ UNCHANGED <<investors, loading, loadingMore, totalCount, stageFilter,
                   hqFilter, sortBy, skip, dirReqs, dirActions, listSources>>
    /\ UNCHANGED <<cfoVars, genVars, dashVars, authVars>>

OptionsRejected ==
    /\ optionsReq
    /\ optionsReq' = FALSE
    /\ Step("optionsRejected")
    /\ UNCHANGED <<investors, loading, loadingMore, filterOptions, totalCount,
                   stageFilter, hqFilter, sortBy, skip, dirReqs, dirActions,
                   listSources>>
    /\ UNCHANGED <<cfoVars, genVars, dashVars, authVars>>

\* ============================================== DashboardPage: report generation
ReportTypes == {<<"monthly-summary">>, <<"cash-flow">>, <<"expense-breakdown">>,
                <<"runway-analysis">>, <<"revenue-analysis">>, <<"investor-update">>}

ReportSuccessText == <<"Report downloaded successfully!">>
ReportFailedText == <<"Failed to generate report. Please try again.">>

SuccessTimeout == 3   \* seconds, setTimeout(..., 3000)
ErrorTimeout == 5     \* seconds, setTimeout(..., 5000)

GenInit ==
    /\ generatingReport = Null
    /\ reportSuccess = Null
    /\ reportError = Null
    /\ genReqs = <<>>
    /\ timers = <<>>
    /\ genSeq = 0
    /\ bannerBy = 0

\* (mutant) the error banner is not reset at the start
KeptAtStart == [success |-> Null, error |-> reportError]

\* the two banner resets at the start of handleGenerateReport
ClearedAtStart == [success |-> Null, error |-> Null]

\* handleGenerateReport up to the await
handleGenerateReport(reportType) ==
    /\ genSeq < MaxGenerations
    /\ genSeq' = genSeq + 1
    /\ generatingReport' = reportType
    /\ reportError' = ClearedAtStart.error
    /\ reportSuccess' = ClearedAtStart.success
    /\ bannerBy' = IF reportError' = Null /\ reportSuccess' = Null THEN 0 ELSE bannerBy
    /\ genReqs' = Append(genReqs, [type |-> reportType, gen |-> genSeq + 1])
    /\ UNCHANGED timers

\* (mutant) the buttons are never disabled
ReportButtonsNeverDisabled == FALSE

\* disabled={generatingReport !== null}, the same on all six buttons
ReportButtonsDisabled == generatingReport # Null

\* a click on one of the six Generate Report buttons
GenerateReport ==
    /\ ~ReportButtonsDisabled
    /\ \E t \in ReportTypes : handleGenerateReport(t)
    /\ Step("handleGenerateReport")
    /\ UNCHANGED <<cfoVars, dirVars, dashVars, authVars>>

\* generateReport resolved: try-rest, then finally
GenerateResolved ==
    /\ \E i \in 1..Len(genReqs) :
          /\ reportSuccess' = ReportSuccessText
          /\ timers' = Append(timers, [clears |-> "success", left |-> SuccessTimeout,
                                       gen |-> genReqs[i].gen])
          /\ bannerBy' = genReqs[i].gen
          /\ genReqs' = RemoveAt(genReqs, i)
    /\ generatingReport' = Null
    /\ Step("generateResolved")
    /\ UNCHANGED <<reportError, genSeq>>
    /\ UNCHANGED <<cfoVars, dirVars, dashVars, authVars>>

\* generateReport rejected: catch, then finally
GenerateRejected ==
    /\ \E i \in 1..Len(genReqs) :
          /\ reportError' = ReportFailedText
          /\ timers' = Append(timers, [clears |-> "error", left |-> ErrorTimeout,
                                       gen |-> genReqs[i].gen])
          /\ bannerBy' = genReqs[i].gen
          /\ genReqs' = RemoveAt(genReqs, i)
    /\ generatingReport' = Null
    /\ Step("generateRejected")
    /\ UNCHANGED <<reportSuccess, genSeq>>
    /\ UNCHANGED <<cfoVars, dirVars, dashVars, authVars>>

\* a setTimeout callback runs: setReportSuccess(null) or setReportError(null)
TimerFires ==
    /\ \E i \in 1..Len(timers) :
          /\ timers[i].left = 0
          /\ IF timers[i].clears = "success"
                THEN reportSuccess' = Null /\ UNCHANGED reportError
                ELSE reportError' = Null /\ UNCHANGED reportSuccess
          /\ timers' = RemoveAt(timers, i)
    /\ bannerBy' = IF reportError' = Null /\ reportSuccess' = Null THEN 0 ELSE bannerBy
    /\ Step("timerFires")
    /\ UNCHANGED <<generatingReport, genReqs, genSeq>>
    /\ UNCHANGED <<cfoVars, dirVars, dashVars, authVars>>

\* one second passes (no callback is overdue)
Tick ==
    /\ timers # <<>>
    /\ \A i \in 1..Len(timers) : timers[i].left > 0
    /\ timers' = [i \in 1..Len(timers) |-> [timers[i] EXCEPT !.left = @ - 1]]
    /\ Step("tick")
    /\ UNCHANGED <<generatingReport, reportSuccess, reportError, genReqs, genSeq,
                   bannerBy>>
    /\ UNCHANGED <<cfoVars, dirVars, dashVars, authVars>>

\* ===================================================== useDashboard (useQuery)
\* useDashboard passes no retry option, so the query client's default decides
\* whether a failed fetch is issued again; the client is configured outside
\* these sources, and the system description has no retry policy
QueryClientRetry == FALSE

DashInit ==
    /\ queryStatus = "loading"
    /\ queryFetching = TRUE
    /\ cashFlow = <<>>
    /\ runwayChange = <<>>
    /\ activeTab = "Overview"
    /\ analytics = <<>>
    /\ scenarioImpact = <<>>
    /\ matchInvestors = <<>>
    /\ matchLoading = TRUE
    /\ matchReqs = 0

\* what DashboardPage renders for the query
DashboardLoaderShown == queryStatus = "loading"
DashboardErrorShown == queryStatus = "error"

QueryResolved ==
    /\ queryFetching
    /\ queryFetching' = FALSE
    /\ queryStatus' = "success"
    /\ Step("queryResolved")
    /\ UNCHANGED <<matchInvestors, matchLoading, matchReqs>>
    /\ UNCHANGED finVars
    /\ UNCHANGED <<cfoVars, dirVars, genVars, authVars>>

\* the fetch failed: the query reports the error, unless the client retries
QueryRejected ==
    /\ queryFetching
    /\ queryFetching' = QueryClientRetry
    /\ queryStatus' = IF QueryClientRetry THEN queryStatus ELSE "error"
    /\ Step("queryRejected")
    /\ UNCHANGED <<matchInvestors, matchLoading, matchReqs>>
    /\ UNCHANGED finVars
    /\ UNCHANGED <<cfoVars, dirVars, genVars, authVars>>

\* refetchOnWindowFocus: the user returns to the tab with the data stale
WindowFocus ==
    /\ queryStatus # "loading"
    /\ ~queryFetching
    /\ queryFetching' = TRUE
    /\ Step("windowFocus")
    /\ UNCHANGED <<queryStatus, matchInvestors, matchLoading, matchReqs>>
    /\ UNCHANGED finVars
    /\ UNCHANGED <<cfoVars, dirVars, genVars, authVars>>

\* ================================================= DashboardPage, Analytics tab
\* a field of a cash-flow entry the server may leave out: <<>> or <<number>>
Amounts == {0, 22000, 50000}
Optional == {<<>>} \cup {<<a>> : a \in Amounts}
Balances == {0, 142000}
Entries == [balance : Balances, income : Optional, expenses : Optional]
Tabs == {"Overview", "Analytics", "Reports"}

\* x || 0 for a number that may be missing
OrZero(x) == IF x = <<>> THEN 0 ELSE x[1]

\* x && x > 0 for a number that may be missing
Positive(x) == x # <<>> /\ x[1] > 0

Abs(n) == IF n < 0 THEN -n ELSE n

\* hasData: some entry has a positive balance, income or expenses
HasData(cf) ==
    \E i \in 1..Len(cf) :
        cf[i].balance > 0 \/ Positive(cf[i].income) \/ Positive(cf[i].expenses)

\* (mutant) the burn of an entry taken as income minus expenses
BurnOfInverted(month) == OrZero(month.income) - OrZero(month.expenses)

\* (month.expenses || 0) - (month.income || 0)
BurnOf(month) == OrZero(month.expenses) - OrZero(month.income)

\* latestBurn: the burn of the last entry, 0 without entries
LatestBurn(cf) == IF Len(cf) > 0 THEN BurnOf(cf[Len(cf)]) ELSE 0

\* previousBurn: the burn of the entry before the last, 0 without one
PreviousBurn(cf) == IF Len(cf) > 1 THEN BurnOf(cf[Len(cf) - 1]) ELSE 0

\* burnChange in percent, as the fraction num / den
BurnChange(cf) ==
    IF PreviousBurn(cf) # 0
    THEN [num |-> (LatestBurn(cf) - PreviousBurn(cf)) * 100, den |-> Abs(PreviousBurn(cf))]
    ELSE [num |-> 0, den |-> 1]

\* ---- the runway metric: computed by the server, read by the Analytics tab
\* the smallest burn the runway is divided by
Epsilon == 1

Max(a, b) == IF a > b THEN a ELSE b

\* runway in hundredths of a month (rounded down) for a financial record
RunwayHundredths(cash, expenses, revenue) ==
    (cash * 100) \div Max(expenses - revenue, Epsilon)

\* runway in tenths of a month, rounded to the nearest
RunwayTenths(cash, expenses, revenue) ==
    (RunwayHundredths(cash, expenses, revenue) + 5) \div 10

DigitChars == <<"0", "1", "2", "3", "4", "5", "6", "7", "8", "9">>

\* the decimal digits of a natural number
RECURSIVE ToChars(_)
ToChars(n) ==
    IF n < 10 THEN <<DigitChars[n + 1]>>
    ELSE ToChars(n \div 10) \o <<DigitChars[(n % 10) + 1]>>

\* the change text of the runway metric, such as "5.1 months"
RunwayText(tenths) ==
    ToChars(tenths \div 10) \o <<".">> \o ToChars(tenths % 10)
        \o <<" ", "m", "o", "n", "t", "h", "s">>

\* the runway metric the server derives from the latest entry of the series
ServerRunwayChange(cf) ==
    IF cf = <<>> THEN <<>>
    ELSE LET latest == cf[Len(cf)]
         IN RunwayText(RunwayTenths(latest.balance, OrZero(latest.expenses),
                                    OrZero(latest.income)))

\* (mutant) the pattern without the decimal point: /\d+/
DigitRunChars == {DigitChars[i] : i \in 1..10}

\* the characters of the pattern /[\d.]+/
NumberChars == {DigitChars[i] : i \in 1..10} \cup {"."}

\* text.match(/[\d.]+/)?.[0]: the first longest run of pattern characters,
\* <<>> when there is none
MatchNumber(text) ==
    LET starts == {i \in 1..Len(text) : text[i] \in NumberChars}
    IN IF starts = {} THEN <<>>
       ELSE LET first == CHOOSE i \in starts : \A j \in starts : i <= j
                stop == CHOOSE j \in first..Len(text) :
                           /\ \A k \in first..j : text[k] \in NumberChars
                           /\ j = Len(text) \/ text[j + 1] \notin NumberChars
            IN SubSeq(text, first, stop)

\* runwayMonths: runwayMetric?.change?.match(/[\d.]+/)?.[0] || '0'
RunwayMonths(change) ==
    IF MatchNumber(change) = <<>> THEN <<"0">> ELSE MatchNumber(change)

\* what renderTabContent computes when the Analytics tab is the active one
RenderAnalytics(cf, change, tab) ==
    IF tab = "Analytics"
    THEN <<[hasData |-> HasData(cf), latestBurn |-> LatestBurn(cf),
            previousBurn |-> PreviousBurn(cf), burnChange |-> BurnChange(cf),
            runwayMonths |-> RunwayMonths(change)]>>
    ELSE <<>>

\* the Burn Rate Change row is part of the Trend Analysis card with data only
BurnChangeShown == analytics # <<>> /\ analytics[1].hasData

\* the query delivers data, the series one month longer than the last time:
\* the page renders again
DataLoaded ==
    /\ Len(cashFlow) < MaxMonths
    /\ \E month \in Entries : cashFlow' = Append(cashFlow, month)
    /\ runwayChange' = ServerRunwayChange(cashFlow')
    /\ analytics' = RenderAnalytics(cashFlow', runwayChange', activeTab)
    /\ Step("dataLoaded")
    /\ UNCHANGED <<activeTab, scenarioImpact, queryStatus, queryFetching,
                   matchInvestors, matchLoading, matchReqs>>
    /\ UNCHANGED <<cfoVars, dirVars, genVars, authVars>>

\* the user picks a tab: the page renders again
SetActiveTab ==
    /\ \E tab \in Tabs \ {activeTab} : activeTab' = tab
    /\ analytics' = RenderAnalytics(cashFlow, runwayChange, activeTab')
    /\ Step("setActiveTab")
    /\ UNCHANGED <<cashFlow, runwayChange, scenarioImpact, queryStatus,
                   queryFetching, matchInvestors, matchLoading, matchReqs>>
    /\ UNCHANGED <<cfoVars, dirVars, genVars, authVars>>

\* ========================================================= scenario simulator
\* the latest financial record a scenario is applied against
Records == [cash_balance : Balances, expenses : Amounts, revenue : Amounts]

\* a what-if delta: monthly expense change, monthly revenue change, one-time cash
ExpenseChanges == {0 - 10000, 0, 25000}
RevenueChanges == {0, 15000}
CashInjections == {0, 500000}
Scenarios == [expense_change : ExpenseChanges, revenue_change : RevenueChanges,
              cash_injection : CashInjections]

\* a runway as the fraction num / den of months, den > 0
RunwayOf(cash, expenses, revenue) ==
    [num |-> cash, den |-> Max(expenses - revenue, Epsilon)]

\* a.num / a.den < b.num / b.den, for fractions of naturals with den > 0,
\* by whole parts and then the remainders (no product is formed)
RECURSIVE FractionLess(_, _)
FractionLess(a, b) ==
    LET qa == a.num \div a.den
        qb == b.num \div b.den
        ra == a.num % a.den
        rb == b.num % b.den
    IN IF qa # qb THEN qa < qb
       ELSE IF rb = 0 THEN FALSE
       ELSE IF ra = 0 THEN TRUE
       ELSE FractionLess([num |-> b.den, den |-> rb], [num |-> a.den, den |-> ra])

\* (mutant) the expense change taken off the baseline expenses
ProjectedExpensesInverted(record, scenario) == record.expenses - scenario.expense_change

\* the baselines shifted by the scenario's deltas
ProjectedExpenses(record, scenario) == record.expenses + scenario.expense_change
ProjectedRevenue(record, scenario) == record.revenue + scenario.revenue_change
ProjectedCash(record, scenario) == record.cash_balance + scenario.cash_injection

\* the sign of the delta projected minus baseline
DeltaSign(baseline, projected) ==
    IF FractionLess(projected, baseline) THEN "-" ELSE "+"

\* the impact of a scenario: both runways, in tenths of a month as shown, and
\* the signed delta
Impact(record, scenario) ==
    LET baseline == RunwayOf(record.cash_balance, record.expenses, record.revenue)
        projected == RunwayOf(ProjectedCash(record, scenario),
                              ProjectedExpenses(record, scenario),
                              ProjectedRevenue(record, scenario))
        fromTenths == RunwayTenths(record.cash_balance, record.expenses, record.revenue)
        toTenths == RunwayTenths(ProjectedCash(record, scenario),
                                 ProjectedExpenses(record, scenario),
                                 ProjectedRevenue(record, scenario))
    IN [record |-> record, scenario |-> scenario,
        baseline |-> baseline, projected |-> projected,
        fromTenths |-> fromTenths, toTenths |-> toTenths,
        sign |-> DeltaSign(baseline, projected),
        delta |-> Abs(toTenths - fromTenths)]

\* a scenario is saved: its impact is computed against the latest record
CreateScenario ==
    /\ \E record \in Records, scenario \in Scenarios :
          scenarioImpact' = <<Impact(record, scenario)>>
    /\ Step("createScenario")
    /\ UNCHANGED <<cashFlow, runwayChange, activeTab, analytics, queryStatus,
                   queryFetching, matchInvestors, matchLoading, matchReqs>>
    /\ UNCHANGED <<cfoVars, dirVars, genVars, authVars>>

\* the scenario is deleted
DeleteScenario ==
    /\ scenarioImpact # <<>>
    /\ scenarioImpact' = <<>>
    /\ Step("deleteScenario")
    /\ UNCHANGED <<cashFlow, runwayChange, activeTab, analytics, queryStatus,
                   queryFetching, matchInvestors, matchLoading, matchReqs>>
    /\ UNCHANGED <<cfoVars, dirVars, genVars, authVars>>

\* ========================================================= InvestorMatchList
TopInvestors == {<<7, 12>>, <<3>>}

\* what the component renders
MatchLoaderShown == matchLoading
MatchErrorShown == FALSE    \* the component renders no error element

\* the effect on [startupId]: getMatches up to the await
GetMatches ==
    /\ matchReqs < MaxPending
    /\ matchLoading' = TRUE
    /\ matchReqs' = matchReqs + 1
    /\ Step("getMatches")
    /\ UNCHANGED <<queryStatus, queryFetching, matchInvestors>>
    /\ UNCHANGED finVars
    /\ UNCHANGED <<cfoVars, dirVars, genVars, authVars>>

MatchesResolved ==
    /\ matchReqs > 0
    /\ \E top \in TopInvestors : matchInvestors' = top
    /\ matchLoading' = FALSE
    /\ matchReqs' = matchReqs - 1
    /\ Step("matchesResolved")
    /\ UNCHANGED <<queryStatus, queryFetching>>
    /\ UNCHANGED finVars
    /\ UNCHANGED <<cfoVars, dirVars, genVars, authVars>>

\* catch (console.error), then finally
MatchesRejected ==
    /\ matchReqs > 0
    /\ matchLoading' = FALSE
    /\ matchReqs' = matchReqs - 1
    /\ Step("matchesRejected")
    /\ UNCHANGED <<queryStatus, queryFetching, matchInvestors>>
    /\ UNCHANGED finVars
    /\ UNCHANGED <<cfoVars, dirVars, genVars, authVars>>

\* ====================================================== authentication
\* ---- the accounts the server knows (the backend is not part of the sources)
Accounts == {"jane", "sam"}
OnboardingCompleted(a) == a = "jane"
UserOf(a) == [id |-> a, onboardingCompleted |-> OnboardingCompleted(a)]
TokenOf(a) == <<"token", a>>

\* what a rejected request may throw: an Error (its message may be empty) or
\* a value that is no Error
Thrown == {[isError |-> TRUE, message |-> <<"Invalid credentials">>],
           [isError |-> TRUE, message |-> <<>>],
           [isError |-> FALSE, message |-> <<"Invalid credentials">>],
           [isError |-> FALSE, message |-> <<>>]}

\* ---- auth.store: login(user, token) and logout(), as their callers use them
StoreLogin(u, t) ==
    /\ user' = <<u>>
    /\ token' = t
    /\ isAuthenticated' = TRUE

StoreLogout ==
    /\ user' = <<>>
    /\ token' = Null
    /\ isAuthenticated' = FALSE

\* ---- the router: the routes behind ProtectedRoute, and the public ones
ProtectedPaths == {"/dashboard", "/onboarding", "/scenarios", "/scenarios/7",
                   "/ideation", "/roadmaps", "/investors", "/settings", "/help"}
PublicPaths == {"/login", "/register"}

\* components/shared/ProtectedRoute.tsx
ProtectedRouteShared(authenticated) ==
    IF ~authenticated THEN "Navigate /login" ELSE "Outlet"

\* the ProtectedRoute module that skips authentication
ProtectedRouteOpen(authenticated) == "Outlet"

\* what ProtectedRoute returns; the router's import decides which module it is
ProtectedRoute(authenticated) ==
    IF guardModule = "shared" THEN ProtectedRouteShared(authenticated)
    ELSE ProtectedRouteOpen(authenticated)

\* the protected child routes are on screen
OutletRendered(p, authenticated) ==
    p \in ProtectedPaths /\ ProtectedRoute(authenticated) = "Outlet"

\* where the router ends up when location p is rendered: <Navigate replace>
\* moves on to /login
Settle(p, authenticated) ==
    IF p \in ProtectedPaths /\ ProtectedRoute(authenticated) = "Navigate /login"
    THEN "/login" ELSE p

\* ==================================================================== Sidebar
\* a location, cut into its "/" and name pieces, so that a prefix of pieces is
\* a prefix of characters
Pieces(p) ==
    CASE p = "/" -> <<"/">>
      [] p = "/scenarios/7" -> <<"/", "scenarios", "/", "7">>
      [] p = "/dashboard" -> <<"/", "dashboard">>
      [] p = "/onboarding" -> <<"/", "onboarding">>
      [] p = "/scenarios" -> <<"/", "scenarios">>
      [] p = "/ideation" -> <<"/", "ideation">>
      [] p = "/roadmaps" -> <<"/", "roadmaps">>
      [] p = "/investors" -> <<"/", "investors">>
      [] p = "/settings" -> <<"/", "settings">>
      [] p = "/help" -> <<"/", "help">>
      [] p = "/login" -> <<"/", "login">>
      [] p = "/register" -> <<"/", "register">>

\* pathname.startsWith(to)
StartsWith(pathname, to) ==
    /\ Len(Pieces(to)) <= Len(Pieces(pathname))
    /\ SubSeq(Pieces(pathname), 1, Len(Pieces(to))) = Pieces(to)

menuItems ==
    <<[to |-> "/", label |-> "Dashboard"],
      [to |-> "/scenarios", label |-> "Scenarios"],
      [to |-> "/ideation", label |-> "Ideation"],
      [to |-> "/roadmaps", label |-> "Roadmaps"],
      [to |-> "/investors", label |-> "Investors"]>>

generalItems ==
    <<[to |-> "/settings", label |-> "Settings"],
      [to |-> "/help", label |-> "Help"]>>

\* NavItem: isActive is pathname === item.to; isMatch adds the prefix match
\* for every item but the one linked to "/"
NavItemMatch(item, pathname) ==
    LET isActive == pathname = item.to
    IN IF item.to = "/" THEN isActive ELSE isActive \/ StartsWith(pathname, item.to)

\* the labels of the items the Sidebar renders in the active state
ActiveItems(pathname) ==
    {menuItems[i].label : i \in {j \in 1..Len(menuItems) : NavItemMatch(menuItems[j], pathname)}}
    \cup {generalItems[i].label :
             i \in {j \in 1..Len(generalItems) : NavItemMatch(generalItems[j], pathname)}}

\* the calls a step made, and the value its request threw if it was rejected
Calls(calls) == authFx' = calls /\ UNCHANGED thrown
Caught(err) == authFx' = <<>> /\ thrown' = <<err>>

AuthInit ==
    /\ user = <<>>
    /\ token = Null
    /\ isAuthenticated = FALSE
    /\ path = "/login"
    /\ guardModule \in {"shared", "open"}
    /\ loginSubmitting = FALSE
    /\ loginError = Null
    /\ loginReqs = <<>>
    /\ googleReqs = <<>>
    /\ googleButton = "loading"
    /\ registerSubmitting = FALSE
    /\ registerError = Null
    /\ registerReqs = <<>>
    /\ registerErrors = {}
    /\ authFx = <<>>
    /\ thrown = <<>>

\* the user opens a location (a link, the address bar)
GoTo ==
    /\ loginReqs = <<>> /\ googleReqs = <<>> /\ registerReqs = <<>>
    /\ \E p \in ProtectedPaths \cup PublicPaths :
          /\ p # path
          /\ path' = Settle(p, isAuthenticated)
    /\ loginSubmitting' = FALSE
    /\ loginError' = Null
    /\ registerSubmitting' = FALSE
    /\ registerError' = Null
    /\ registerErrors' = {}
    /\ Calls(<<>>)
    /\ Step("goTo")
    /\ UNCHANGED <<registerReqs, user, token, isAuthenticated, guardModule, loginReqs, googleReqs,
                   googleButton>>
    /\ UNCHANGED <<cfoVars, dirVars, genVars, dashVars>>

\* Sidebar handleLogout: logout(), then navigate('/login')
handleLogout ==
    /\ OutletRendered(path, isAuthenticated)
    /\ StoreLogout
    /\ path' = Settle("/login", isAuthenticated')
    /\ Calls(<<"logout", "navigate /login">>)
    /\ Step("handleLogout")
    /\ UNCHANGED <<registerSubmitting, registerError, registerReqs,
                   guardModule, loginSubmitting, loginError, loginReqs,
                   googleReqs, googleButton>>
    /\ UNCHANGED registerErrors
    /\ UNCHANGED <<cfoVars, dirVars, genVars, dashVars>>

\* ---- LoginPage
LoginFallbackText == <<"Login failed. Please check your credentials.">>
LoginRetryText == <<"Login failed. Please try again.">>
GoogleFailedText == <<"Google authentication failed">>

\* the error banner is rendered when errorMessage is truthy
LoginBannerShown == ~Falsy(loginError)

\* onSubmit up to the await (the button is disabled while isSubmitting)
LoginSubmit ==
    /\ path = "/login"
    /\ ~loginSubmitting
    /\ Len(loginReqs) < MaxPending
    /\ loginSubmitting' = TRUE
    /\ loginError' = Null
    /\ \E a \in Accounts : loginReqs' = Append(loginReqs, a)
    /\ Calls(<<>>)
    /\ Step("loginSubmit")
    /\ UNCHANGED <<registerSubmitting, registerError, registerReqs, user, token,
                   isAuthenticated, path, guardModule, googleReqs,
                   googleButton>>
    /\ UNCHANGED registerErrors
    /\ UNCHANGED <<cfoVars, dirVars, genVars, dashVars>>

\* (mutant) every sign-in lands on the dashboard
LoginDestinationDashboard(u) == "/dashboard"

\* where onSubmit navigates after loginUser
LoginDestination(u) == IF u.onboardingCompleted THEN "/dashboard" ELSE "/onboarding"

\* the store and router calls of the try block of onSubmit, in order
LoginCalls(u) == <<"loginUser", "navigate " \o LoginDestination(u)>>

\* login resolved: loginUser, navigate, then finally
LoginResolved ==
    /\ \E i \in 1..Len(loginReqs) :
          LET u == UserOf(loginReqs[i])
          IN /\ StoreLogin(u, TokenOf(loginReqs[i]))
             /\ path' = Settle(LoginDestination(u), isAuthenticated')
             /\ Calls(LoginCalls(u))
             /\ loginReqs' = RemoveAt(loginReqs, i)
    /\ loginSubmitting' = FALSE
    /\ Step("loginResolved")
    /\ UNCHANGED <<registerSubmitting, registerError, registerReqs,
                   guardModule, loginError, googleReqs, googleButton>>
    /\ UNCHANGED registerErrors
    /\ UNCHANGED <<cfoVars, dirVars, genVars, dashVars>>

\* (mutant) the catch block sets the thrown value's message, without fallback
LoginCatchMessageOnly(err) == err.message

\* the catch block of onSubmit: the message it sets
LoginCatch(err) ==
    IF err.isError
    THEN (IF Falsy(err.message) THEN LoginFallbackText ELSE err.message)
    ELSE LoginRetryText

\* login rejected: catch, then finally
LoginRejected ==
    /\ \E i \in 1..Len(loginReqs) : loginReqs' = RemoveAt(loginReqs, i)
    /\ \E err \in Thrown : loginError' = LoginCatch(err) /\ Caught(err)
    /\ loginSubmitting' = FALSE
    /\ Step("loginRejected")
    /\ UNCHANGED <<registerSubmitting, registerError, registerReqs, user, token,
                   isAuthenticated, path, guardModule, googleReqs,
                   googleButton>>
    /\ UNCHANGED registerErrors
    /\ UNCHANGED <<cfoVars, dirVars, genVars, dashVars>>

\* ---- GoogleSignInButton on the login page
\* fetchClientId settled: the button renders, or stays hidden
ClientIdResolved ==
    /\ googleButton = "loading"
    /\ googleButton' = "ready"
    /\ Calls(<<>>)
    /\ Step("clientIdResolved")
    /\ UNCHANGED <<registerSubmitting, registerError, registerReqs, user, token,
                   isAuthenticated, path, guardModule, loginSubmitting,
                   loginError, loginReqs, googleReqs>>
    /\ UNCHANGED registerErrors
    /\ UNCHANGED <<cfoVars, dirVars, genVars, dashVars>>

ClientIdRejected ==
    /\ googleButton = "loading"
    /\ googleButton' = "hidden"
    /\ Calls(<<>>)
    /\ Step("clientIdRejected")
    /\ UNCHANGED <<registerSubmitting, registerError, registerReqs, user, token,
                   isAuthenticated, path, guardModule, loginSubmitting,
                   loginError, loginReqs, googleReqs>>
    /\ UNCHANGED registerErrors
    /\ UNCHANGED <<cfoVars, dirVars, genVars, dashVars>>

\* handleCredentialResponse up to the await; the credential tells the server
\* which account it is and, for the server, whether it is new
GoogleCredentials == {[account |-> "jane", is_new_user |-> FALSE],
                      [account |-> "kim", is_new_user |-> TRUE]}

GoogleSignIn ==
    /\ path = "/login"
    /\ googleButton = "ready"
    /\ Len(googleReqs) < MaxPending
    /\ \E c \in GoogleCredentials : googleReqs' = Append(googleReqs, c)
    /\ Calls(<<>>)
    /\ Step("googleSignIn")
    /\ UNCHANGED <<registerSubmitting, registerError, registerReqs, user, token,
                   isAuthenticated, path, guardModule, loginSubmitting,
                   loginError, loginReqs, googleButton>>
    /\ UNCHANGED registerErrors
    /\ UNCHANGED <<cfoVars, dirVars, genVars, dashVars>>

GoogleUser(response) ==
    [id |-> response.account, onboardingCompleted |-> ~response.is_new_user]

GoogleDestination(response) ==
    IF response.is_new_user THEN "/onboarding" ELSE "/dashboard"

\* the store and router calls of onSuccess, in order
GoogleCalls(response) == <<"loginUser", "navigate " \o GoogleDestination(response)>>

\* POST /auth/google resolved: onSuccess(authResponse)
GoogleResolved ==
    /\ \E i \in 1..Len(googleReqs) :
          LET response == googleReqs[i]
          IN /\ StoreLogin(GoogleUser(response), TokenOf(response.account))
             /\ path' = Settle(GoogleDestination(response), isAuthenticated')
             /\ Calls(GoogleCalls(response))
             /\ googleReqs' = RemoveAt(googleReqs, i)
    /\ Step("googleResolved")
    /\ UNCHANGED <<registerSubmitting, registerError, registerReqs,
                   guardModule, loginSubmitting, loginError, loginReqs,
                   googleButton>>
    /\ UNCHANGED registerErrors
    /\ UNCHANGED <<cfoVars, dirVars, genVars, dashVars>>

\* the message handleCredentialResponse passes to setError and onError
GoogleCatch(err) == IF err.isError THEN err.message ELSE GoogleFailedText

\* POST /auth/google rejected: setError(message) hides the button when the
\* message is truthy, onError sets the page's errorMessage
GoogleRejected ==
    /\ \E i \in 1..Len(googleReqs) : googleReqs' = RemoveAt(googleReqs, i)
    /\ \E err \in Thrown :
          /\ loginError' = GoogleCatch(err)
          /\ googleButton' = IF Falsy(GoogleCatch(err)) THEN googleButton ELSE "hidden"
          /\ Caught(err)
    /\ Step("googleRejected")
    /\ UNCHANGED <<registerSubmitting, registerError, registerReqs, user, token,
                   isAuthenticated, path, guardModule, loginSubmitting,
                   loginReqs>>
    /\ UNCHANGED registerErrors
    /\ UNCHANGED <<cfoVars, dirVars, genVars, dashVars>>

\* ---- RegisterPage
RegisterFallbackText == <<"Registration failed. Please try again.">>
NewAccounts == {"kim"}

RegisterBannerShown == ~Falsy(registerError)

\* ---- the register form: what the user may have typed into its fields
NameChars == {"K"}
FullNames == UNION {[1..n -> NameChars] : n \in 0..MaxName}
PasswordLengths == {0, 7, 8}
Passwords == {[i \in 1..n |-> "x"] : n \in PasswordLengths}
Emails == {<<>>, <<"kim">>, <<"kim", "@", "acme">>, <<"kim", "@", "acme", ".", "io">>}
RegisterInputs == [fullName : FullNames, email : Emails, password : Passwords]

\* z.string().email(): a local part, "@", and a domain with a dot in it
EmailValid(email) ==
    /\ Len(email) = 5
    /\ email[2] = "@" /\ email[4] = "."
    /\ \A i \in {1, 3, 5} : email[i] \notin {"@", "."}

NameMessage == "Name must be at least 2 characters"
EmailMessage == "Invalid email address"
PasswordMessage == "Password must be at least 8 characters"

MinName == 2
MinPassword == 8

\* (mutant) a schema without the password rule
registerSchemaNoPassword(data) ==
    (IF Len(data.fullName) >= MinName THEN {} ELSE {NameMessage})
    \cup (IF EmailValid(data.email) THEN {} ELSE {EmailMessage})

\* registerSchema: the messages of the fields that fail
registerSchema(data) ==
    (IF Len(data.fullName) >= MinName THEN {} ELSE {NameMessage})
    \cup (IF EmailValid(data.email) THEN {} ELSE {EmailMessage})
    \cup (IF Len(data.password) >= MinPassword THEN {} ELSE {PasswordMessage})

\* handleSubmit(onSubmit) with valid data: onSubmit up to the await (the
\* button is disabled while isSubmitting)
RegisterSubmit ==
    /\ path = "/register"
    /\ ~registerSubmitting
    /\ Len(registerReqs) < MaxPending
    /\ \E a \in NewAccounts, data \in RegisterInputs :
          /\ registerSchema(data) = {}
          /\ registerReqs' = Append(registerReqs, [account |-> a, data |-> data])
    /\ registerErrors' = {}
    /\ registerSubmitting' = TRUE
    /\ registerError' = Null
    /\ Calls(<<>>)
    /\ Step("registerSubmit")
    /\ UNCHANGED <<user, token, isAuthenticated, path, guardModule, loginSubmitting,
                   loginError, loginReqs, googleReqs, googleButton>>
    /\ UNCHANGED <<cfoVars, dirVars, genVars, dashVars>>

\* handleSubmit(onSubmit) with data the schema rejects: the messages are
\* shown and onSubmit is not called
RegisterInvalid ==
    /\ path = "/register"
    /\ ~registerSubmitting
    /\ \E data \in RegisterInputs :
          /\ registerSchema(data) # {}
          /\ registerErrors' = registerSchema(data)
    /\ Calls(<<>>)
    /\ Step("registerInvalid")
    /\ UNCHANGED <<registerSubmitting, registerError, registerReqs, user, token,
                   isAuthenticated, path, guardModule, loginSubmitting,
                   loginError, loginReqs, googleReqs, googleButton>>
    /\ UNCHANGED <<cfoVars, dirVars, genVars, dashVars>>

\* the store and router calls of the try block of onSubmit, in order
RegisterCalls == <<"loginUser", "navigate /onboarding">>

\* register resolved: loginUser, navigate('/onboarding'), then finally
RegisterResolved ==
    /\ \E i \in 1..Len(registerReqs) :
          /\ StoreLogin(UserOf(registerReqs[i].account),
                        TokenOf(registerReqs[i].account))
          /\ registerReqs' = RemoveAt(registerReqs, i)
    /\ path' = Settle("/onboarding", isAuthenticated')
    /\ registerSubmitting' = FALSE
    /\ Calls(RegisterCalls)
    /\ Step("registerResolved")
    /\ UNCHANGED <<registerError, guardModule, loginSubmitting, loginError, loginReqs,
                   googleReqs, googleButton>>
    /\ UNCHANGED registerErrors
    /\ UNCHANGED <<cfoVars, dirVars, genVars, dashVars>>

\* (mutant) the catch block of RegisterPage.onSubmit sets no message
RegisterCatchSilent(err) == Null

\* the catch block of onSubmit: the message it sets
RegisterCatch(err) ==
    IF err.isError
    THEN (IF Falsy(err.message) THEN RegisterFallbackText ELSE err.message)
    ELSE RegisterFallbackText

\* register rejected: catch, then finally
RegisterRejected ==
    /\ \E i \in 1..Len(registerReqs) : registerReqs' = RemoveAt(registerReqs, i)
    /\ \E err \in Thrown : registerError' = RegisterCatch(err) /\ Caught(err)
    /\ registerSubmitting' = FALSE
    /\ Step("registerRejected")
    /\ UNCHANGED <<user, token, isAuthenticated, path, guardModule, loginSubmitting,
                   loginError, loginReqs, googleReqs, googleButton>>
    /\ UNCHANGED registerErrors
    /\ UNCHANGED <<cfoVars, dirVars, genVars, dashVars>>

\* ============================================================ specifications
Parts == {"chat", "executiveReport", "reports", "query", "matches", "directory",
          "auth"}

Init ==
    /\ CfoInit
    /\ DirInit
    /\ GenInit
    /\ DashInit
    /\ AuthInit
    /\ focus \in Parts
    /\ last = "init"

InitOn(part) == Init /\ focus = part

\* the CFO chat widget as the user drives it
NextCfo ==
    \/ OpenWidget \/ CloseWidget \/ TypeInput
    \/ handleFormSubmit \/ handleFormSubmitIgnored
    \/ ChatResolved \/ ChatRejected \/ ResetChatSession

SpecCfo == InitOn("chat") /\ [][NextCfo]_vars

\* the CFO store called directly: sendUserMessage calls may overlap
NextStore ==
    \/ SendUserMessage \/ ChatResolved \/ ChatRejected \/ ResetChatSession

SpecStore == InitOn("chat") /\ [][NextStore]_vars

\* the investor directory page
NextDir ==
    \/ setStageFilter \/ setHqFilter \/ setSortBy \/ LoadMore
    \/ DirResolved \/ DirRejected \/ OptionsResolved \/ OptionsRejected

SpecDir == InitOn("directory") /\ [][NextDir]_vars

\* the Analytics tab of the dashboard over the data the query delivers
NextAnalytics == DataLoaded \/ SetActiveTab

SpecAnalytics == InitOn("query") /\ [][NextAnalytics]_vars

\* the scenario simulator: scenarios saved against financial baselines
NextScenarios == CreateScenario \/ DeleteScenario

SpecScenarios == InitOn("query") /\ [][NextScenarios]_vars

\* the investor directory page when every request succeeds
NextDirOk ==
    \/ setStageFilter \/ setHqFilter \/ setSortBy \/ LoadMore
    \/ DirResolved \/ OptionsResolved

SpecDirOk == InitOn("directory") /\ [][NextDirOk]_vars

\* the directory paged to its end: the user settles on a selection while the
\* first page is shown and nothing is in flight, and changes no filter once
\* paging has begun; every request succeeds.  The selection leaves room under
\* MaxDirActions for the presses of Load More that a full paging takes.
SelectBeforePaging ==
    /\ dirActions + MaxPages - 1 < MaxDirActions
    /\ dirReqs = <<>>
    /\ skip = 0
    /\ (setStageFilter \/ setHqFilter \/ setSortBy)

NextPaging ==
    \/ SelectBeforePaging \/ LoadMore \/ DirResolved \/ OptionsResolved

\* the user presses Load More whenever it is offered; a request in flight is
\* answered
SpecPaging ==
    /\ InitOn("directory")
    /\ [][NextPaging]_vars
    /\ WF_vars(LoadMore)
    /\ WF_vars(DirResolved)

\* report generation on the dashboard's Reports tab
NextReports ==
    \/ GenerateReport \/ GenerateResolved \/ GenerateRejected
    \/ TimerFires \/ Tick

SpecReports == InitOn("reports") /\ [][NextReports]_vars

\* sign-in, sign-out and navigation
NextAuth ==
    \/ GoTo \/ handleLogout
    \/ LoginSubmit \/ LoginResolved \/ LoginRejected
    \/ ClientIdResolved \/ ClientIdRejected
    \/ GoogleSignIn \/ GoogleResolved \/ GoogleRejected
    \/ RegisterSubmit \/ RegisterInvalid \/ RegisterResolved \/ RegisterRejected

SpecAuth == InitOn("auth") /\ [][NextAuth]_vars

\* the application: the parts keep their state apart (one store or one
\* component's useState each), so a run of the application is a run of each
\* part; a run here exercises the part chosen initially
NextApp ==
    \/ focus = "chat" /\ SendUserMessage
    \/ focus = "chat" /\ ChatResolved
    \/ focus = "chat" /\ ChatRejected
    \/ focus = "chat" /\ ResetChatSession
    \/ focus = "executiveReport" /\ MountExecutiveReport
    \/ focus = "executiveReport" /\ UnmountExecutiveReport
    \/ focus = "executiveReport" /\ RefreshReport
    \/ focus = "executiveReport" /\ ReportResolved
    \/ focus = "executiveReport" /\ ReportRejected
    \/ focus = "reports" /\ GenerateReport
    \/ focus = "reports" /\ GenerateResolved
    \/ focus = "reports" /\ GenerateRejected
    \/ focus = "reports" /\ TimerFires
    \/ focus = "reports" /\ Tick
    \/ focus = "query" /\ QueryResolved
    \/ focus = "query" /\ QueryRejected
    \/ focus = "query" /\ WindowFocus
    \/ focus = "matches" /\ GetMatches
    \/ focus = "matches" /\ MatchesResolved
    \/ focus = "matches" /\ MatchesRejected
    \/ focus = "directory" /\ setStageFilter
    \/ focus = "directory" /\ setHqFilter
    \/ focus = "directory" /\ setSortBy
    \/ focus = "directory" /\ LoadMore
    \/ focus = "directory" /\ DirResolved
    \/ focus = "directory" /\ DirRejected
    \/ focus = "directory" /\ OptionsResolved
    \/ focus = "directory" /\ OptionsRejected
    \/ focus = "auth" /\ GoTo
    \/ focus = "auth" /\ handleLogout
    \/ focus = "auth" /\ LoginSubmit
    \/ focus = "auth" /\ LoginResolved
    \/ focus = "auth" /\ LoginRejected
    \/ focus = "auth" /\ ClientIdResolved
    \/ focus = "auth" /\ ClientIdRejected
    \/ focus = "auth" /\ GoogleSignIn
    \/ focus = "auth" /\ GoogleResolved
    \/ focus = "auth" /\ GoogleRejected
    \/ focus = "auth" /\ RegisterSubmit
    \/ focus = "auth" /\ RegisterInvalid
    \/ focus = "auth" /\ RegisterResolved
    \/ focus = "auth" /\ RegisterRejected

SpecApp == Init /\ [][NextApp]_vars

\* ==================================================================== claims
\* C1: the protected child routes are rendered only while isAuthenticated is
\* true (otherwise ProtectedRoute redirects to /login), and the Sidebar's
\* Logout clears the auth state before it navigates to /login.
C1_ProtectedOnlyWhenAuthenticated ==
    /\ OutletRendered(path, isAuthenticated) => isAuthenticated
    /\ last = "handleLogout" =>
          /\ ~isAuthenticated /\ user = <<>> /\ token = Null
          /\ authFx = <<"logout", "navigate /login">>
          /\ path = "/login"

\* C2: a successful sign-in (password or Google) stores the user and token
\* before it navigates, and navigates to /onboarding when onboarding is not
\* completed (password: user.onboardingCompleted false; Google: is_new_user)
\* and to /dashboard otherwise.
C2_SignInStoresThenNavigates ==
    [][/\ last' = "loginResolved" =>
             \E i \in 1..Len(loginReqs) :
                LET a == loginReqs[i]
                    dest == IF OnboardingCompleted(a) THEN "/dashboard" ELSE "/onboarding"
                IN /\ loginReqs' = RemoveAt(loginReqs, i)
                   /\ isAuthenticated' /\ user' = <<UserOf(a)>> /\ token' = TokenOf(a)
                   /\ authFx' = <<"loginUser", "navigate " \o dest>>
                   /\ path' = dest
       /\ last' = "googleResolved" =>
             \E i \in 1..Len(googleReqs) :
                LET r == googleReqs[i]
                    dest == IF r.is_new_user THEN "/onboarding" ELSE "/dashboard"
                IN /\ googleReqs' = RemoveAt(googleReqs, i)
                   /\ isAuthenticated' /\ user' # <<>> /\ user'[1].id = r.account
                   /\ token' = TokenOf(r.account)
                   /\ authFx' = <<"loginUser", "navigate " \o dest>>
                   /\ path' = dest
      ]_vars

C2_Witness ==
    /\ last = "loginResolved" /\ path = "/onboarding"
    /\ isAuthenticated /\ user = <<UserOf("sam")>>

C4_EveryFailureDisplayed ==
    /\ last = "loginRejected" => LoginBannerShown
    /\ last = "registerRejected" => RegisterBannerShown
    /\ last = "generateRejected" => ~Falsy(reportError)
    /\ last = "chatRejected" => chatHistory[Len(chatHistory)].text = ChatErrorText
    /\ last = "reportRejected" => ~isGeneratingReport /\ monthlyReport = ReportErrorText
    /\ last = "matchesRejected" => MatchErrorShown
    /\ last = "dirRejected" => DirectoryErrorShown

\* the steps that are user actions (or a mount) calling a handler
ChatCallSteps == {"sendUserMessage", "handleFormSubmit"}
ExecutiveCallSteps == {"MountExecutiveReport", "RefreshReport"}
GenerateCallSteps == {"handleGenerateReport"}
QueryCallSteps == {"windowFocus"}

\* a step took one request out of those in flight and issued none
OneSettled(before, after) == \E i \in 1..Len(before) : after = RemoveAt(before, i)

\* the three handlers: an invocation adds one request, a settled request is
\* taken out, and no other step touches the requests in flight
HandlersIssueOnce ==
    /\ last' \in ChatCallSteps => \E t \in InputTexts : chatReqs' = Append(chatReqs, t)
    /\ last' \in {"chatResolved", "chatRejected"} => OneSettled(chatReqs, chatReqs')
    /\ last' \notin ChatCallSteps \cup {"chatResolved", "chatRejected"} =>
          chatReqs' = chatReqs
    /\ last' = "RefreshReport" => reportReqs' = reportReqs + 1
    /\ last' = "MountExecutiveReport" =>
          reportReqs' = reportReqs +
             (IF Falsy(monthlyReport) /\ ~isGeneratingReport THEN 1 ELSE 0)
    /\ last' \in {"reportResolved", "reportRejected"} => reportReqs' = reportReqs - 1
    /\ last' \notin ExecutiveCallSteps \cup {"reportResolved", "reportRejected"} =>
          reportReqs' = reportReqs
    /\ last' \in GenerateCallSteps =>
          \E t \in ReportTypes : genReqs' = Append(genReqs, [type |-> t, gen |-> genSeq'])
    /\ last' \in {"generateResolved", "generateRejected"} => OneSettled(genReqs, genReqs')
    /\ last' \notin GenerateCallSteps \cup {"generateResolved", "generateRejected"} =>
          genReqs' = genReqs

\* the dashboard data query: a fetch starts only with a user action, and a
\* failed fetch is not issued again
QueryIssuesOnce ==
    /\ last' \in QueryCallSteps => ~queryFetching /\ queryFetching'
    /\ last' \notin QueryCallSteps => (queryFetching' => queryFetching)
    /\ last' \in {"queryResolved", "queryRejected"} => queryFetching /\ ~queryFetching'

C6_ChatAppendsOnly ==
    [][/\ last' = "sendUserMessage" =>
             \E t \in InputTexts :
                /\ chatReqs' = Append(chatReqs, t)
                /\ chatHistory' = Append(chatHistory, [role |-> "user", text |-> t])
       /\ last' = "chatResolved" =>
             \E r \in ChatResponses :
                chatHistory' = Append(chatHistory, [role |-> "ai", text |-> r])
       /\ last' = "chatRejected" =>
             chatHistory' = Append(chatHistory,
                [role |-> "ai",
                 text |-> <<"Error connecting to the financial engine. Please try again.">>])
      ]_vars

C6_Witness ==
    /\ last = "chatRejected" /\ Len(chatHistory) >= 4 /\ Len(chatReqs) = 1
    /\ chatHistory[Len(chatHistory)].text = ChatErrorText

\* C7: with every request succeeding and a static catalog, whenever no list
\* request is outstanding the displayed list is the first min(skip + 50,
\* total) records of the server's result for the current selection.
C7_ListMatchesSelection ==
    dirReqs = <<>> =>
        LET all == ServerResult(stageFilter, hqFilter, sortBy)
        IN investors = SubSeq(all, 1, Min(skip + 50, Len(all)))

\* C8: each user action on the directory (a selection change, Load More)
\* causes exactly one list request, carrying the selection and offset in
\* effect after the action (offset 0 after a selection change).
C8_OneRequestPerAction ==
    [][/\ last' \in {"setStageFilter", "setHqFilter", "setSortBy"} =>
             /\ skip' = 0
             /\ dirReqs' = Append(dirReqs, Request(stageFilter', hqFilter', sortBy', 0))
       /\ last' = "LoadMore" =>
             dirReqs' = Append(dirReqs, Request(stageFilter', hqFilter', sortBy', skip'))
      ]_vars

\* C9: a settled report generation sets the success banner iff it succeeded
\* and the error banner iff it failed, and the two banners are never shown
\* together.
C9_OneBanner ==
    /\ ~(~Falsy(reportSuccess) /\ ~Falsy(reportError))
    /\ last = "generateResolved" =>
          /\ reportSuccess = <<"Report downloaded successfully!">>
          /\ reportError = Null
    /\ last = "generateRejected" =>
          /\ reportError = <<"Failed to generate report. Please try again.">>
          /\ reportSuccess = Null

C9_Witness ==
    /\ last = "generateResolved" /\ genSeq >= 2
    /\ \E i \in 1..Len(timers) : timers[i].clears = "error"

\* C10: isGeneratingReport is true exactly while the report request is
\* outstanding; a resolved request leaves the server's report in
\* monthlyReport, a rejected one the fixed fallback text.
C10_ExecutiveReport ==
    /\ isGeneratingReport <=> reportReqs > 0
    /\ last = "reportResolved" => monthlyReport \in ServerReports
    /\ last = "reportRejected" =>
          monthlyReport = <<"Failed to compile the executive summary. Ensure you have financial data imported.">>

C10_Witness ==
    /\ last = "reportRejected" /\ ~isGeneratingReport /\ reportReqs = 0
    /\ monthlyReport = ReportErrorText

\* C11: a successful registration stores the returned user and token in the
\* auth store and then navigates to /onboarding; a failed registration shows
\* an error box, stores nothing and does not navigate; isSubmitting is true
\* only while the registration request is outstanding.
C11_Registration ==
    [][/\ last' = "registerSubmit" => registerSubmitting' /\ registerReqs' # <<>>
       /\ last' = "registerResolved" =>
             \E i \in 1..Len(registerReqs) :
                /\ registerReqs' = RemoveAt(registerReqs, i)
                /\ user' = <<UserOf(registerReqs[i].account)>>
                /\ token' = TokenOf(registerReqs[i].account)
                /\ isAuthenticated'
                /\ authFx' = <<"loginUser", "navigate /onboarding">>
                /\ path' = "/onboarding"
                /\ ~registerSubmitting'
       /\ last' = "registerRejected" =>
             /\ ~Falsy(registerError')
             /\ UNCHANGED <<user, token, isAuthenticated, path>>
             /\ authFx' = <<>>
             /\ ~registerSubmitting'
       /\ registerSubmitting' => registerReqs' # <<>>
      ]_vars

C11_Witness ==
    /\ last = "registerRejected" /\ path = "/register"
    /\ registerError = <<"Registration failed. Please try again.">>
    /\ ~registerSubmitting /\ ~isAuthenticated /\ registerReqs = <<>>

\* C12: the burn rate of the Analytics tab is expenses minus revenue (income)
\* of the latest entry of the cash-flow series, a missing value counted as 0,
\* and Burn Rate Change is its change relative to the same quantity of the
\* immediately preceding entry.
C12_BurnRate ==
    (activeTab = "Analytics" /\ cashFlow # <<>>) =>
        LET n == Len(cashFlow)
            e == IF cashFlow[n].expenses = <<>> THEN 0 ELSE cashFlow[n].expenses[1]
            r == IF cashFlow[n].income = <<>> THEN 0 ELSE cashFlow[n].income[1]
            a == analytics[1]
        IN /\ analytics # <<>>
           /\ a.latestBurn = e - r
           /\ n > 1 =>
                 LET pe == IF cashFlow[n-1].expenses = <<>> THEN 0
                           ELSE cashFlow[n-1].expenses[1]
                     pr == IF cashFlow[n-1].income = <<>> THEN 0
                           ELSE cashFlow[n-1].income[1]
                 IN /\ a.previousBurn = pe - pr
                    /\ pe - pr # 0 =>
                          /\ a.burnChange.num = ((e - r) - (pe - pr)) * 100
                          /\ a.burnChange.den = IF pe - pr < 0 THEN pr - pe ELSE pe - pr

C12_Witness ==
    /\ activeTab = "Analytics" /\ Len(cashFlow) = 2 /\ BurnChangeShown
    /\ cashFlow[2].income = <<>> /\ cashFlow[2].expenses = <<50000>>
    /\ analytics[1].latestBurn = 50000 /\ analytics[1].previousBurn = 28000

ExpenseOnlyScenario ==
    /\ scenarioImpact # <<>>
    /\ scenarioImpact[1].record.expenses - scenarioImpact[1].record.revenue > 0
    /\ scenarioImpact[1].scenario.expense_change > 0
    /\ scenarioImpact[1].scenario.revenue_change = 0
    /\ scenarioImpact[1].scenario.cash_injection = 0

\* the projected runway is strictly smaller and the delta is reported negative
RunwayDecreased ==
    /\ FractionLess(scenarioImpact[1].projected, scenarioImpact[1].baseline)
    /\ scenarioImpact[1].toTenths <= scenarioImpact[1].fromTenths
    /\ scenarioImpact[1].sign = "-"

\* C14 (as stated): for every baseline with positive burn, a scenario with a
\* positive monthly expense change and no revenue change or cash injection
\* yields a projected runway strictly smaller than the baseline runway, and
\* the impact is reported as a negative signed delta.
C14_ExpenseScenarioShortensRunway == ExpenseOnlyScenario => RunwayDecreased

\* C14 (amended): the same for every baseline with positive burn and a positive
\* cash balance.
C14_ExpenseScenarioShortensPositiveRunway ==
    (ExpenseOnlyScenario /\ scenarioImpact[1].record.cash_balance > 0) => RunwayDecreased

C14_Witness ==
    /\ scenarioImpact # <<>>
    /\ scenarioImpact[1].record = [cash_balance |-> 142000, expenses |-> 50000,
                                   revenue |-> 22000]
    /\ scenarioImpact[1].scenario = [expense_change |-> 25000, revenue_change |-> 0,
                                     cash_injection |-> 0]
    /\ scenarioImpact[1].fromTenths = 51 /\ scenarioImpact[1].toTenths = 27
    /\ scenarioImpact[1].sign = "-"

\* the sidebar pages of the guide, each with its route
SidebarPages ==
    {[label |-> "Dashboard", route |-> "/dashboard"],
     [label |-> "Scenarios", route |-> "/scenarios"],
     [label |-> "Ideation", route |-> "/ideation"],
     [label |-> "Roadmaps", route |-> "/roadmaps"],
     [label |-> "Settings", route |-> "/settings"]}

\* C15: when the current route is a sidebar page's route (Dashboard at
\* /dashboard, /scenarios, /ideation, /roadmaps, /settings) that page's nav
\* item is the one rendered active and no other item is; on a nested path such
\* as /scenarios/<id> the parent item is the active one.
C15_ActiveNavItem ==
    (isAuthenticated /\ OutletRendered(path, isAuthenticated)) =>
        /\ \A page \in SidebarPages :
              path = page.route => ActiveItems(path) = {page.label}
        /\ path = "/scenarios/7" => ActiveItems(path) = {"Scenarios"}

\* the validation messages the claim expects for the data of a submit
ExpectedMessages(data) ==
    {m \in {"Name must be at least 2 characters", "Invalid email address",
            "Password must be at least 8 characters"} :
        \/ m = "Name must be at least 2 characters" /\ Len(data.fullName) < 2
        \/ m = "Invalid email address" /\ data.email # <<"kim", "@", "acme", ".", "io">>
        \/ m = "Password must be at least 8 characters" /\ Len(data.password) < 8}

\* C16: the registration request is issued only when the full name has at
\* least 2 characters, the email is a valid address and the password has at
\* least 8 characters; otherwise the corresponding validation messages are
\* shown, no request is sent and the auth store is unchanged.
C16_RegisterValidation ==
    [][/\ Len(registerReqs') > Len(registerReqs) =>
             /\ last' = "registerSubmit"
             /\ ExpectedMessages(registerReqs'[Len(registerReqs')].data) = {}
             /\ registerErrors' = {}
       /\ last' = "registerInvalid" =>
             /\ \E data \in RegisterInputs :
                   /\ ExpectedMessages(data) # {}
                   /\ registerErrors' = ExpectedMessages(data)
             /\ UNCHANGED <<registerReqs, user, token, isAuthenticated, path>>
       /\ (registerErrors' # registerErrors /\ registerErrors' # {}) =>
             last' = "registerInvalid"
      ]_vars

C16_Witness ==
    /\ last = "registerInvalid" /\ path = "/register"
    /\ registerErrors = {"Password must be at least 8 characters"}
    /\ registerReqs = <<>> /\ ~isAuthenticated

\* C17: isProcessingChat (the typing indicator) is true exactly while at least
\* one sendUserMessage request is outstanding, for any sequence of
\* sendUserMessage calls, overlapping ones included, and false once every
\* request has settled.
C17_TypingIndicator == isProcessingChat <=> chatReqs # <<>>

\* C18: a fresh search replaces the directory list and only Load More appends
\* to it: a change of stage, headquarters or sort resets the offset to 0, and
\* the displayed grid never holds investors fetched for the previous selection
\* together with investors fetched for the new one.
C18_NoMixedList ==
    [][/\ last' \in {"setStageFilter", "setHqFilter", "setSortBy"} => skip' = 0
       /\ GridShown' => Cardinality(listSources') <= 1
      ]_vars

\* C19: the full-page loader is displayed whenever a fresh-search request
\* (offset 0) is outstanding, and the Load More button is disabled (loadingMore
\* true) whenever a load-more request (offset > 0) is outstanding, for any
\* interleaving of overlapping requests and their completions.
C19_LoadersFollowRequests ==
    /\ (\E i \in 1..Len(dirReqs) : dirReqs[i].skip = 0) => LoaderShown
    /\ (\E i \in 1..Len(dirReqs) : dirReqs[i].skip > 0) => loadingMore

\* C20: in every state where no request is outstanding and Load More is
\* offered, the offset of the next Load More request (skip + LIMIT) equals the
\* number of investors displayed, also after a failed request, which leaves the
\* displayed list and the total unchanged: no page is skipped.
C20_NextOffsetIsListLength ==
    /\ []((dirReqs = <<>> /\ LoadMoreOffered) => skip + LIMIT = Len(investors))
    /\ [][last' = "dirRejected" =>
            investors' = investors /\ totalCount' = totalCount]_vars

\* C21: submitting the chat form does nothing (no message appended, no request
\* issued, input not cleared) when the input is empty or whitespace-only or
\* while a chat request is outstanding; otherwise it clears the input and
\* calls sendUserMessage exactly once with the entered text, so at most one
\* chat request issued through the widget is outstanding at any time.
C21_FormSubmit ==
    [][LET submitted == last' \in {"handleFormSubmit", "handleFormSubmitIgnored"}
           blank == Trim(currentInput) = <<>>
           busy == chatReqs # <<>>
       IN /\ (submitted /\ (blank \/ busy)) =>
                UNCHANGED <<chatHistory, chatReqs, currentInput>>
          /\ (submitted /\ ~blank /\ ~busy) =>
                /\ currentInput' = <<>>
                /\ chatReqs' = <<currentInput>>
                /\ chatHistory' = Append(chatHistory, UserMsg(currentInput))
          /\ Len(chatReqs') <= 1
      ]_vars

\* a text with leading whitespace was submitted as typed and is outstanding
C21_Witness ==
    /\ last = "handleFormSubmit"
    /\ chatReqs = << <<" ", "a">> >>
    /\ currentInput = <<>>

\* C22: chatHistory is never empty and its first entry is an AI message; in any
\* interleaving of widget submissions, request completions and
\* resetChatSession every later AI message immediately follows the user
\* message it answers: after the first entry the roles alternate user, ai.
C22_RolesAlternate ==
    /\ chatHistory # <<>>
    /\ chatHistory[1].role = "ai"
    /\ \A i \in 2..Len(chatHistory) :
          chatHistory[i].role = IF i % 2 = 0 THEN "user" ELSE "ai"

\* C23: at most one report generation request is outstanding at any time:
\* while generatingReport is non-null all six report buttons are disabled, and
\* generatingReport returns to null when the request settles, whether it
\* succeeded or failed.
C23_OneGeneration ==
    /\ Len(genReqs) <= 1
    /\ generatingReport # Null => ReportButtonsDisabled
    /\ genReqs # <<>> => generatingReport = genReqs[1].type
    /\ last \in {"generateResolved", "generateRejected"} => generatingReport = Null

\* a second generation has failed and the buttons are enabled again
C23_Witness ==
    /\ last = "generateRejected"
    /\ genSeq >= 2
    /\ genReqs = <<>>
    /\ ~ReportButtonsDisabled

\* C24: a report banner set by one report generation is cleared only by that
\* generation's own timeout (3 s for success, 5 s for error) or by the start
\* of a later generation, never by a timeout scheduled by an earlier one.
C24_BannerClearedByOwnTimeout ==
    [][(bannerBy # 0 /\ bannerBy' = 0) =>
          \/ last' = "handleGenerateReport" /\ genSeq' > bannerBy
          \/ /\ last' = "timerFires"
             /\ \E i \in 1..Len(timers) :
                   /\ timers[i].gen = bannerBy
                   /\ timers[i].left = 0
                   /\ timers' = RemoveAt(timers, i)
      ]_vars

\* C25: with a static catalog, no filter changes and every request succeeding,
\* pressing Load More whenever it is offered eventually reaches a state in
\* which all `total` matching investors are displayed and the Load More button
\* is no longer offered; it is offered exactly while fewer investors are
\* displayed than the reported total.
AllDisplayed ==
    /\ dirReqs = <<>>
    /\ GridShown
    /\ totalCount = MatchCount(stageFilter, hqFilter)
    /\ investors = ServerResult(stageFilter, hqFilter, sortBy)
    /\ ~LoadMoreOffered

C25_LoadMoreReachesAll ==
    /\ <>AllDisplayed
    /\ [](GridShown => (LoadMoreOffered <=> Len(investors) < totalCount))

\* the third page has been appended after two presses of Load More
C25_Witness ==
    /\ AllDisplayed
    /\ skip = 2 * LIMIT
    /\ Len(investors) > 2 * LIMIT

====
